---------------------------- MODULE Spec2Model ----------------------------
(***************************************************************************)
(* weewx-purpleair (bin/user/purpleair.py): the PurpleAirMonitor service,  *)
(* its background PurpleAirMonitorDataThread and collect_data.             *)
(*                                                                         *)
(* Two threads share the thread object's _record slot under _lock:         *)
(*   - the poll thread runs PurpleAirMonitorDataThread.run;                *)
(*   - the engine's main thread runs new_archive_record and shutDown.      *)
(* Python dicts are objects on a heap, named by references, so that        *)
(* aliasing between the slot, run's local `record` and the handler's       *)
(* local `record` is visible.                                              *)
(*                                                                         *)
(* Time is in whole seconds.  Floating point values are kept in halves     *)
(* (Float(n) = 2n), which makes the mean of two channel readings exact.    *)
(***************************************************************************)
EXTENDS Integers, Sequences, FiniteSets, TLC

VARIABLES
    now,        \* the clock: time.time() / datetime.utcnow(), in seconds
    conf,       \* PurpleAirMonitor.config_dict: option name -> value
    dbcol,      \* the columns of the table in the bound database
    ipc,        \* position of the main thread in PurpleAirMonitor.__init__
    bound,      \* new_archive_record is bound to NEW_ARCHIVE_RECORD
    running,    \* PurpleAirMonitorDataThread.running
    pc,         \* position of the poll thread in run()
    last_ts,    \* run's local last_ts: <<>> is None, <<t>> a time
    record,     \* run's local record: a reference
    resp,       \* the answer to the latest fetch, until a cycle completes
    sleepUntil, \* when the latest time.sleep() of the poll thread returns
    session,    \* the requests.Session of run()
    slot,       \* PurpleAirMonitorDataThread._record: a reference
    lock,       \* holder of PurpleAirMonitorDataThread._lock
    heap,       \* the dict objects
    mpc,        \* position of the main thread
    ev,         \* event.record['dateTime'] of the latest archival signal
    held,       \* new_archive_record's local record: a reference
    outcome,    \* how the last new_archive_record call ended
    nAdd,       \* addRecord calls made by the last new_archive_record call
    db,         \* dateTime of every record handed to dbm.addRecord
    hasThread,  \* PurpleAirMonitor._thread is not None
    nShut       \* shutDown calls made so far

vars == <<now, conf, dbcol, ipc, bound, running, pc, last_ts, record, resp,
          sleepUntil, session, slot, lock, heap, mpc, ev, held, outcome,
          nAdd, db, hasThread, nShut>>

---------------------------------------------------------------------------
(* Bounds of the model *)

\* the clock runs from 1 to MaxTime
MaxTime == 5
\* the configured poll interval, in seconds
PollInterval == 2
\* number of heap cells
NRefs == 3
\* shutDown is called at most this often
MaxShutDowns == 2
\* channel readings range over 0..MaxConc
MaxConc == 2
\* the normalizer is exercised at NormSpan different clock values
NormSpan == 2

(* Program constants *)

\* valid_timeout = datetime.timedelta(minutes=10), in seconds
ValidTimeout == 600
\* time.sleep(1)
TickSeconds == 1
\* weewx.US
US == 1
\* self._record = None
NoneRef == 0

Refs == 1..NRefs

---------------------------------------------------------------------------
(* Configuration values *)

\* weeutil.weeutil.to_int: an int as it is, text parsed as a number
ToInt(c) == c.n

\* the default of setdefault('interval', ...), an int
DefaultInterval == [kind |-> "int", n |-> PollInterval]

\* an interval option read from weewx.conf: text
TextInterval == [kind |-> "str", n |-> PollInterval]

IntervalForms == { DefaultInterval, TextInterval }

\* text is a sequence of characters
Digits == {"0", "1", "2", "3", "4", "5", "6", "7", "8", "9"}

\* str.isnumeric(): at least one character, and all of them numeric
IsNumeric(s) == Len(s) > 0 /\ \A i \in 1..Len(s) : s[i] \in Digits

\* hostname = 'purple-air', as install.py writes it: a device on the LAN
DeviceName == <<"p", "u", "r", "p", "l", "e", "-", "a", "i", "r">>

\* hostname = a sensor index of the PurpleAir website
SensorIndex == <<"1", "2", "3", "4", "5">>

\* hostname = an IP address, and an empty hostname
DeviceAddress == <<"1", "0", ".", "0", ".", "0", ".", "7">>
NoName == <<>>

\* dict.setdefault(key, value)
SetDefault(d, key, value) ==
    IF key \in DOMAIN d THEN d ELSE (key :> value) @@ d

\* a [PurpleAirMonitor] section: option opt[k] is <<>> when left out and
\* <<v>> when written
Section(opt) ==
    [ k \in { x \in DOMAIN opt : opt[x] # <<>> } |-> opt[k][1] ]

\* the sections weewx.conf may hold, for hostnames in names
Sections(names) ==
    { Section([ hostname |-> h, api_key |-> a, interval |-> i ]) :
        h \in {<<>>} \cup { <<x>> : x \in names },
        a \in { <<>>, <<"API_KEY">> },
        i \in { <<>>, <<TextInterval>> } }

\* mutant of MissingOption: api_key is looked up for every hostname
MissingOptionStrict(c) ==
    IF "hostname" \notin DOMAIN c THEN <<"hostname">>
    ELSE IF "api_key" \notin DOMAIN c THEN <<"api_key">>
    ELSE <<>>

\* the lookups of the try block of __init__ (lines 257 to 262), in order:
\* the option whose lookup raises KeyError, or <<>>
MissingOption(c) ==
    IF "hostname" \notin DOMAIN c THEN <<"hostname">>
    ELSE IF IsNumeric(c["hostname"]) /\ "api_key" \notin DOMAIN c
    THEN <<"api_key">>
    ELSE <<>>

\* the setdefault calls of lines 264 to 267 (port and timeout have no part
\* in the model)
WithDefaults(c) ==
    SetDefault(SetDefault(c, "interval", DefaultInterval),
               "api_key", "API_KEY")

\* the column names of schema, [x[0] for x in schema]
SchemaColumns ==
    <<"dateTime", "usUnits", "interval", "purple_temperature",
      "purple_humidity", "purple_dewpoint", "purple_pressure",
      "pm1_0_cf_1", "pm1_0_atm", "pm2_5_cf_1", "pm2_5_atm",
      "pm10_0_cf_1", "pm10_0_atm">>

\* `dbcol != memcol`, on lists
SchemaMismatch(cols) == cols # SchemaColumns

\* config_dict['hostname'].isnumeric(), as collect_data evaluates it
cloud == IsNumeric(conf["hostname"])

\* config_dict['interval']: an int, or text from weewx.conf
interval == conf["interval"]

---------------------------------------------------------------------------
(* collect_data *)

PMKeys == <<"pm1_0_cf_1", "pm1_0_atm", "pm2_5_cf_1",
            "pm2_5_atm", "pm10_0_cf_1", "pm10_0_atm">>

PMKeySet == { PMKeys[i] : i \in 1..Len(PMKeys) }

remap_dot == [ pm1_0_cf_1 |-> "pm1.0_cf_1", pm1_0_atm |-> "pm1.0_atm",
               pm2_5_cf_1 |-> "pm2.5_cf_1", pm2_5_atm |-> "pm2.5_atm",
               pm10_0_cf_1 |-> "pm10.0_cf_1", pm10_0_atm |-> "pm10.0_atm" ]

\* the key of channel A of concentration `key` in payload j
ChannelA(isCloud, key) == IF isCloud THEN remap_dot[key] \o "_a" ELSE key

\* the key of channel B
ChannelB(isCloud, key) ==
    IF isCloud THEN remap_dot[key] \o "_b" ELSE key \o "_b"

\* float(x) of a JSON number, in halves
Float(x) == 2 * x

\* get_and_update_missed: <<float>> or <<>> for None
get_and_update_missed(j, key) ==
    IF key \in DOMAIN j THEN <<Float(j[key])>> ELSE <<>>

\* weewx.units.convertStd((pressure, 'mbar', 'group_pressure'), weewx.US):
\* mbar to inHg, x * 0.0295299875
MbarToInHg(x) == (x * 2953) \div 100000

\* the key holding the payload's time stamp
SeenKey(isCloud) == IF isCloud THEN "last_seen" ELSE "response_date"

\* the temperature, humidity and dewpoint part of the record
EnvFields(isCloud, j) ==
    IF isCloud
    THEN [ purple_temperature |-> get_and_update_missed(j, "temperature"),
           purple_humidity |-> get_and_update_missed(j, "humidity") ]
    ELSE [ purple_temperature |-> get_and_update_missed(j, "current_temp_f"),
           purple_humidity |-> get_and_update_missed(j, "current_humidity"),
           purple_dewpoint |-> get_and_update_missed(j, "current_dewpoint_f") ]

\* the pressure part of the record
PressureField(j) ==
    IF "pressure" \in DOMAIN j
    THEN [ purple_pressure |-> MbarToInHg(Float(j["pressure"])) ]
    ELSE <<>>

\* mutant of Reconcile: a zero channel is averaged in like any other
ReconcileMean(valA, valB) == (valA + valB) \div 2

\* the value stored for one concentration from its two channels
Reconcile(valA, valB) ==
    IF valA = 0 /\ valB # 0 THEN valB
    ELSE IF valB = 0 /\ valA # 0 THEN valA
    ELSE (valA + valB) \div 2

\* mutant of IsFresh: an age of exactly valid_timeout still counts as fresh
IsFreshInclusive(t, last_seen) == t - last_seen <= ValidTimeout

\* datetime.utcnow() - last_seen < valid_timeout
IsFresh(t, last_seen) == t - last_seen < ValidTimeout

\* the payload keys the concentration loop reads
PMInputs(isCloud) ==
    { ChannelA(isCloud, k) : k \in PMKeySet } \cup
    { ChannelB(isCloud, k) : k \in PMKeySet }

\* the concentration part of the record
PMFields(isCloud, j) ==
    [ k \in PMKeySet |-> Reconcile(Float(j[ChannelA(isCloud, k)]),
                                   Float(j[ChannelB(isCloud, k)])) ]

Raise(exc) == [ exc |-> exc, record |-> <<>> ]

\* mutant of RecordTime: the record carries the payload's time stamp
RecordTimeOfPayload(t, seen) == seen

\* record['dateTime'] = int(time.time()): the clock at the fetch, whatever
\* time stamp the payload carries
RecordTime(t, seen) == t

\* collect_data after r.json(): body is the parsed JSON, t the clock
Normalize(isCloud, body, t) ==
    IF isCloud /\ "sensor" \notin DOMAIN body THEN Raise("KeyError")
    ELSE
    LET j == IF isCloud THEN body["sensor"] ELSE body IN
    IF SeenKey(isCloud) \notin DOMAIN j THEN Raise("KeyError")
    ELSE
    LET base == [ dateTime |-> RecordTime(t, j[SeenKey(isCloud)]),
                  usUnits |-> US ]
                  @@ EnvFields(isCloud, j) @@ PressureField(j) IN
    IF IsFresh(t, j[SeenKey(isCloud)])
    THEN IF PMInputs(isCloud) \subseteq DOMAIN j
         THEN [ exc |-> "none", record |-> base @@ PMFields(isCloud, j) ]
         ELSE Raise("KeyError")
    ELSE [ exc |-> "none", record |-> base ]

\* collect_data: the outcome of one fetch of response r at clock t
collect_data(isCloud, r, t) ==
    CASE r.kind = "socket.error" -> Raise("socket.error")
      [] r.kind = "RequestException" -> Raise("RequestException")
      [] r.kind = "HTTPError" -> Raise("RequestException")
      [] r.kind = "notjson" -> Raise("ValueError")
      [] OTHER -> Normalize(isCloud, r.body, t)

---------------------------------------------------------------------------
(* What the sensor can answer *)

EnvKeys(isCloud) ==
    IF isCloud THEN {"temperature", "humidity", "pressure"}
    ELSE {"current_temp_f", "current_humidity", "current_dewpoint_f", "pressure"}

EnvValue == [ temperature |-> 70, humidity |-> 40, pressure |-> 1010,
              current_temp_f |-> 70, current_humidity |-> 40,
              current_dewpoint_f |-> 45 ]

\* the two channel keys of concentration k, reading ab = <<A, B>>
Channels(isCloud, k, ab) ==
    (ChannelA(isCloud, k) :> ab[1]) @@ (ChannelB(isCloud, k) :> ab[2])

\* a complete payload: seen is its time stamp, ab[k] = <<A, B>> the two
\* channel readings of concentration k
Payload(isCloud, seen, ab) ==
    [ x \in EnvKeys(isCloud) |-> EnvValue[x] ]
    @@ (SeenKey(isCloud) :> seen)
    @@ Channels(isCloud, PMKeys[1], ab[PMKeys[1]])
    @@ Channels(isCloud, PMKeys[2], ab[PMKeys[2]])
    @@ Channels(isCloud, PMKeys[3], ab[PMKeys[3]])
    @@ Channels(isCloud, PMKeys[4], ab[PMKeys[4]])
    @@ Channels(isCloud, PMKeys[5], ab[PMKeys[5]])
    @@ Channels(isCloud, PMKeys[6], ab[PMKeys[6]])

Without(j, key) == [ x \in DOMAIN j \ {key} |-> j[x] ]

\* the JSON document around payload j
Body(isCloud, j) == IF isCloud THEN [ sensor |-> j ] ELSE j

Json(isCloud, j) == [ kind |-> "json", body |-> Body(isCloud, j) ]

NoResponse == [ kind |-> "none" ]

Failures == { [ kind |-> "socket.error" ], [ kind |-> "RequestException" ],
              [ kind |-> "HTTPError" ], [ kind |-> "notjson" ] }

SameAB == [ k \in PMKeySet |-> <<1, MaxConc>> ]

\* the answers the running service is checked against at clock t
Responses(isCloud, t) ==
    Failures \cup
    { Json(isCloud, Payload(isCloud, t, SameAB)),
      Json(isCloud, Payload(isCloud, t - ValidTimeout, SameAB)),
      Json(isCloud, Without(Payload(isCloud, t, SameAB),
                            ChannelB(isCloud, "pm2_5_atm"))) }

---------------------------------------------------------------------------
(* The heap of dict objects *)

Min(S) == CHOOSE x \in S : \A y \in S : x <= y

\* a cell no reference in roots names
Alloc(roots) == Min(Refs \ roots)

\* cells that no reference names are reclaimed
Collect(h, roots) == [ r \in Refs |-> IF r \in roots THEN h[r] ELSE <<>> ]

\* Python's `not d` for a reference to a dict: None, or an empty dict
Falsy(h, ref) == ref = NoneRef \/ DOMAIN h[ref] = {}

---------------------------------------------------------------------------
(* PurpleAirMonitorDataThread.run *)

\* mutant of FetchDue: a fetch is due only after more than an interval
FetchDueStrict ==
    \/ last_ts = <<>>
    \/ last_ts[1] = 0
    \/ now - last_ts[1] > ToInt(interval)

\* mutant of FetchDue: a fetch is due one tick before the interval is over
FetchDueEarly ==
    \/ last_ts = <<>>
    \/ last_ts[1] = 0
    \/ now - last_ts[1] >= ToInt(interval) - TickSeconds

\* `not last_ts or time.time() - last_ts >= to_int(interval)`
FetchDue ==
    \/ last_ts = <<>>
    \/ last_ts[1] = 0
    \/ now - last_ts[1] >= ToInt(interval)

\* int(to_int(interval) / 60)
IntervalMinutes == ToInt(interval) \div 60

\* mutant of ExceptSleep: the except clauses sleep the short tick
ExceptSleepTick(exc) == TickSeconds

\* the sleep of the except clause that catches exc
ExceptSleep(exc) ==
    CASE exc = "socket.error" -> ToInt(interval)
      [] exc = "RequestException" -> ToInt(interval)
      [] OTHER -> ToInt(interval)

\* mutant of Caught: there is no `except Exception` clause
CaughtNarrow(exc) == exc \in {"socket.error", "RequestException"}

\* which exceptions of the try block an except clause catches: socket.error,
\* requests.RequestException, and Exception for every other one
Caught(exc) ==
    CASE exc = "socket.error" -> TRUE
      [] exc = "RequestException" -> TRUE
      [] OTHER -> TRUE

\* mutant of StepAfter: the record is put in the slot before its interval
\* field is set
StepAfterPublishEarly(p) ==
    CASE p = "fetching" -> "lock"
      [] p = "lock" -> "assign"
      [] p = "assign" -> "interval"
      [] p = "interval" -> "stamp"
      [] OTHER -> "tick"

\* the statements of a successful cycle, in program order: collect_data,
\* record['interval'] = ..., with self._lock, self._record = record,
\* last_ts = time.time()
StepAfter(p) ==
    CASE p = "fetching" -> "interval"
      [] p = "interval" -> "lock"
      [] p = "lock" -> "assign"
      [] p = "assign" -> "stamp"
      [] OTHER -> "tick"

PollVars == <<running, pc, last_ts, record, resp, sleepUntil, session>>
MainVars == <<mpc, ev, held, outcome, nAdd, db, hasThread, nShut>>
ConfVars == <<conf, dbcol, ipc, bound>>

\* self.running = True; session = requests.Session(); last_ts = None
RunStart ==
    /\ pc = "start"
    /\ running' = TRUE
    /\ session' = "open"
    /\ last_ts' = <<>>
    /\ pc' = "while"
    /\ UNCHANGED <<now, record, resp, sleepUntil, slot, lock, heap>>
    /\ UNCHANGED MainVars /\ UNCHANGED ConfVars

\* while self.running:
WhileTest ==
    /\ pc = "while"
    /\ pc' = IF running THEN "if" ELSE "close"
    /\ UNCHANGED <<now, running, last_ts, record, resp, sleepUntil, session,
                   slot, lock, heap>>
    /\ UNCHANGED MainVars /\ UNCHANGED ConfVars

\* the if of line 347: a fetch is started, or the loop sleeps its tick
IfDue ==
    /\ pc = "if"
    /\ IF FetchDue
       THEN /\ pc' = "fetching"
            /\ UNCHANGED sleepUntil
       ELSE /\ pc' = "tick"
            /\ sleepUntil' = now + TickSeconds
    /\ UNCHANGED <<now, running, last_ts, record, resp, session, slot, lock,
                   heap>>
    /\ UNCHANGED MainVars /\ UNCHANGED ConfVars

\* collect_data returns or raises on answer r
FetchReturnOn(r) ==
    LET out == collect_data(cloud, r, now) IN
    /\ pc = "fetching"
    /\ resp' = r
    /\ IF out.exc = "none"
       THEN LET ref == Alloc({record, slot, held} \ {NoneRef}) IN
            /\ record' = ref
            /\ heap' = Collect([heap EXCEPT ![ref] = out.record],
                               {ref, slot, held})
            /\ pc' = StepAfter("fetching")
            /\ UNCHANGED sleepUntil
       ELSE IF Caught(out.exc)
       THEN /\ pc' = "backoff"
            /\ sleepUntil' = now + ExceptSleep(out.exc)
            /\ UNCHANGED <<record, heap>>
       ELSE /\ pc' = "done"
            /\ UNCHANGED <<sleepUntil, record, heap>>
    /\ UNCHANGED <<now, running, last_ts, session, slot, lock>>
    /\ UNCHANGED MainVars /\ UNCHANGED ConfVars

FetchReturn ==
    /\ pc = "fetching"
    /\ \E r \in Responses(cloud, now) : FetchReturnOn(r)

\* record['interval'] = int(to_int(interval) / 60)
WithInterval(rec) == ("interval" :> IntervalMinutes) @@ rec

SetInterval ==
    /\ pc = "interval"
    /\ heap' = [heap EXCEPT ![record] = WithInterval(heap[record])]
    /\ pc' = StepAfter("interval")
    /\ UNCHANGED <<now, running, last_ts, record, resp, sleepUntil, session,
                   slot, lock>>
    /\ UNCHANGED MainVars /\ UNCHANGED ConfVars

\* with self._lock:
PublishLock ==
    /\ pc = "lock"
    /\ lock = "free"
    /\ lock' = "poll"
    /\ pc' = StepAfter("lock")
    /\ UNCHANGED <<now, running, last_ts, record, resp, sleepUntil, session,
                   slot, heap>>
    /\ UNCHANGED MainVars /\ UNCHANGED ConfVars

\* mutant of Publish: the lock is still held after the with block
PublishKeepLock ==
    /\ pc = "assign"
    /\ slot' = record
    /\ heap' = Collect(heap, {record, held})
    /\ pc' = StepAfter("assign")
    /\ UNCHANGED <<now, running, last_ts, record, resp, sleepUntil, session,
                   lock>>
    /\ UNCHANGED MainVars /\ UNCHANGED ConfVars

\* self._record = record, and the lock is released
Publish ==
    /\ pc = "assign"
    /\ slot' = record
    /\ heap' = Collect(heap, {record, held})
    /\ lock' = "free"
    /\ pc' = StepAfter("assign")
    /\ UNCHANGED <<now, running, last_ts, record, resp, sleepUntil, session>>
    /\ UNCHANGED MainVars /\ UNCHANGED ConfVars

\* last_ts = time.time(); time.sleep(1)
Stamp ==
    /\ pc = "stamp"
    /\ last_ts' = <<now>>
    /\ resp' = NoResponse
    /\ IF StepAfter("stamp") = "tick"
       THEN sleepUntil' = now + TickSeconds
       ELSE UNCHANGED sleepUntil
    /\ pc' = StepAfter("stamp")
    /\ UNCHANGED <<now, running, record, session, slot, lock, heap>>
    /\ UNCHANGED MainVars /\ UNCHANGED ConfVars

\* time.sleep returns, from the tick or from an except clause
Wake ==
    /\ pc \in {"tick", "backoff"}
    /\ now >= sleepUntil
    /\ pc' = "while"
    /\ UNCHANGED <<now, running, last_ts, record, resp, sleepUntil, session,
                   slot, lock, heap>>
    /\ UNCHANGED MainVars /\ UNCHANGED ConfVars

\* session.close(), the last statement of run
CloseSession ==
    /\ pc = "close"
    /\ session' = "closed"
    /\ pc' = "exit"
    /\ UNCHANGED <<now, running, last_ts, record, resp, sleepUntil, slot,
                   lock, heap>>
    /\ UNCHANGED MainVars /\ UNCHANGED ConfVars

\* run returns and the thread ends: from here a join() on it returns
RunReturn ==
    /\ pc = "exit"
    /\ pc' = "done"
    /\ UNCHANGED <<now, running, last_ts, record, resp, sleepUntil, session,
                   slot, lock, heap>>
    /\ UNCHANGED MainVars /\ UNCHANGED ConfVars

PollThread ==
    \/ RunStart \/ WhileTest \/ IfDue \/ FetchReturn \/ SetInterval
    \/ PublishLock \/ Publish \/ Stamp \/ Wake \/ CloseSession
    \/ RunReturn

---------------------------------------------------------------------------
(* PurpleAirMonitor: new_archive_record and shutDown, on the main thread *)

\* math.fabs(record['dateTime'] - event.record['dateTime'])
Delta(rec, e) ==
    IF rec.dateTime >= e THEN rec.dateTime - e ELSE e - rec.dateTime

\* `delta > self.config_dict['interval'] * 1.5`: text times a float raises
\* TypeError, an int gives the comparison (in halves of a second)
TooOld(delta, c) ==
    IF c.kind = "str" THEN "TypeError"
    ELSE IF 2 * delta > 3 * c.n THEN "yes" ELSE "no"

\* the host delivers NEW_ARCHIVE_RECORD with event.record['dateTime'] = e:
\* archive records come one at a time, each with a later dateTime
ArchiveSignal(e) ==
    /\ mpc = "idle"
    /\ bound
    /\ hasThread
    /\ e > ev
    /\ ev' = e
    /\ outcome' = "none"
    /\ nAdd' = 0
    /\ mpc' = "get_lock"
    /\ UNCHANGED <<now, held, db, hasThread, nShut, slot, lock, heap>>
    /\ UNCHANGED PollVars /\ UNCHANGED ConfVars

\* get_record: with self._lock
GetRecordLock ==
    /\ mpc = "get_lock"
    /\ lock = "free"
    /\ lock' = "main"
    /\ mpc' = "get_copy"
    /\ UNCHANGED <<now, ev, held, outcome, nAdd, db, hasThread, nShut, slot,
                   heap>>
    /\ UNCHANGED PollVars /\ UNCHANGED ConfVars

\* mutant of CopyOf: get_record returns the slot's own dict, not a copy
CopyOfAlias(h, ref, fresh) ==
    IF Falsy(h, ref) THEN [ ref |-> NoneRef, heap |-> h ]
    ELSE [ ref |-> ref, heap |-> h ]

\* what get_record returns for the slot: None, or a reference to a copy
CopyOf(h, ref, fresh) ==
    IF Falsy(h, ref) THEN [ ref |-> NoneRef, heap |-> h ]
    ELSE [ ref |-> fresh, heap |-> [h EXCEPT ![fresh] = h[ref]] ]

\* mutant of GetRecordCopy: reading empties the slot
GetRecordTake ==
    LET got == CopyOf(heap, slot, Alloc({record, slot} \ {NoneRef})) IN
    /\ mpc = "get_copy"
    /\ held' = got.ref
    /\ heap' = got.heap
    /\ slot' = NoneRef
    /\ lock' = "free"
    /\ mpc' = "eval"
    /\ UNCHANGED <<now, ev, outcome, nAdd, db, hasThread, nShut>>
    /\ UNCHANGED PollVars /\ UNCHANGED ConfVars

\* get_record: the copy is taken and the lock released
GetRecordCopy ==
    LET got == CopyOf(heap, slot, Alloc({record, slot} \ {NoneRef})) IN
    /\ mpc = "get_copy"
    /\ held' = got.ref
    /\ heap' = got.heap
    /\ lock' = "free"
    /\ mpc' = "eval"
    /\ UNCHANGED <<now, ev, outcome, nAdd, db, hasThread, nShut, slot>>
    /\ UNCHANGED PollVars /\ UNCHANGED ConfVars

\* new_archive_record after get_record: lines 305 to 312 and save_data
HandlerResult(h, ref, e, c) ==
    IF Falsy(h, ref) THEN "skip_empty"
    ELSE LET old == TooOld(Delta(h[ref], e), c) IN
         IF old = "TypeError" THEN "raise"
         ELSE IF old = "yes" THEN "skip_stale"
         ELSE "persist"

Evaluate ==
    LET res == HandlerResult(heap, held, ev, interval) IN
    /\ mpc = "eval"
    /\ outcome' = res
    /\ IF res = "persist"
       THEN /\ db' = db \cup {heap[held].dateTime}
            /\ nAdd' = nAdd + 1
       ELSE UNCHANGED <<db, nAdd>>
    /\ held' = NoneRef
    /\ heap' = Collect(heap, {record, slot})
    /\ mpc' = "idle"
    /\ UNCHANGED <<now, ev, hasThread, nShut, slot, lock>>
    /\ UNCHANGED PollVars /\ UNCHANGED ConfVars

\* mutant of ShutDown: the thread is signalled and joined without the test
\* of self._thread
ShutDownUnguarded ==
    /\ mpc = "idle"
    /\ nShut < MaxShutDowns
    /\ nShut' = nShut + 1
    /\ running' = FALSE
    /\ mpc' = "join"
    /\ UNCHANGED <<now, pc, last_ts, record, resp, sleepUntil, session, slot,
                   lock, heap, ev, held, outcome, nAdd, db, hasThread>>
    /\ UNCHANGED ConfVars

\* shutDown: dbm.close(); if self._thread: self._thread.running = False
ShutDown ==
    /\ mpc = "idle"
    /\ nShut < MaxShutDowns
    /\ nShut' = nShut + 1
    /\ IF hasThread
       THEN /\ running' = FALSE
            /\ mpc' = "join"
       ELSE UNCHANGED <<running, mpc>>
    /\ UNCHANGED <<now, pc, last_ts, record, resp, sleepUntil, session, slot,
                   lock, heap, ev, held, outcome, nAdd, db, hasThread>>
    /\ UNCHANGED ConfVars

\* mutant of Join: join() returns without waiting for the thread to end
JoinNoWait ==
    /\ mpc = "join"
    /\ hasThread' = FALSE
    /\ mpc' = "idle"
    /\ UNCHANGED <<now, ev, held, outcome, nAdd, db, nShut, slot, lock, heap>>
    /\ UNCHANGED PollVars /\ UNCHANGED ConfVars

\* shutDown: self._thread.join() returns; self._thread = None
Join ==
    /\ mpc = "join"
    /\ pc = "done"
    /\ hasThread' = FALSE
    /\ mpc' = "idle"
    /\ UNCHANGED <<now, ev, held, outcome, nAdd, db, nShut, slot, lock, heap>>
    /\ UNCHANGED PollVars /\ UNCHANGED ConfVars

MainThread ==
    \/ \E e \in 1..now : ArchiveSignal(e)
    \/ GetRecordLock \/ GetRecordCopy \/ Evaluate \/ ShutDown \/ Join

---------------------------------------------------------------------------
(* PurpleAirMonitor.__init__, on the main thread *)

\* the try block of lines 257 to 262: a KeyError becomes an Exception
CheckOptions ==
    /\ ipc = "try"
    /\ ipc' = IF MissingOption(conf) # <<>> THEN "raised" ELSE "defaults"
    /\ UNCHANGED <<now, conf, dbcol, bound, slot, lock, heap>>
    /\ UNCHANGED PollVars /\ UNCHANGED MainVars

\* the setdefault calls
SetDefaults ==
    /\ ipc = "defaults"
    /\ conf' = WithDefaults(conf)
    /\ ipc' = "schema"
    /\ UNCHANGED <<now, dbcol, bound, slot, lock, heap>>
    /\ UNCHANGED PollVars /\ UNCHANGED MainVars

\* get_manager, and the comparison of the table's columns with the schema
CheckSchema ==
    /\ ipc = "schema"
    /\ ipc' = IF SchemaMismatch(dbcol) THEN "raised" ELSE "bind"
    /\ UNCHANGED <<now, conf, dbcol, bound, slot, lock, heap>>
    /\ UNCHANGED PollVars /\ UNCHANGED MainVars

\* self.bind(weewx.NEW_ARCHIVE_RECORD, self.new_archive_record)
Bind ==
    /\ ipc = "bind"
    /\ bound' = TRUE
    /\ ipc' = "thread"
    /\ UNCHANGED <<now, conf, dbcol, slot, lock, heap>>
    /\ UNCHANGED PollVars /\ UNCHANGED MainVars

\* self._thread = PurpleAirMonitorDataThread(...); self._thread.start():
\* the thread object has _record None and running False, and run is
\* about to execute
StartThread ==
    /\ ipc = "thread"
    /\ hasThread' = TRUE
    /\ slot' = NoneRef
    /\ lock' = "free"
    /\ running' = FALSE
    /\ pc' = "start"
    /\ ipc' = "ready"
    /\ UNCHANGED <<now, conf, dbcol, bound, heap, last_ts, record, resp,
                   sleepUntil, session, mpc, ev, held, outcome, nAdd, db,
                   nShut>>

Construct ==
    CheckOptions \/ SetDefaults \/ CheckSchema \/ Bind \/ StartThread

---------------------------------------------------------------------------
(* The clock *)

Tick ==
    /\ now < MaxTime
    /\ now' = now + 1
    /\ UNCHANGED <<slot, lock, heap>>
    /\ UNCHANGED PollVars /\ UNCHANGED MainVars /\ UNCHANGED ConfVars

---------------------------------------------------------------------------
(* The service after PurpleAirMonitor.__init__: the thread object is built *)
(* (running False, _record None) and start() has been called                *)

ReadyConfigs ==
    { WithDefaults(c) : c \in { x \in Sections({DeviceName, SensorIndex}) :
                                   MissingOption(x) = <<>> } }

Init ==
    /\ now = 1
    /\ conf \in ReadyConfigs
    /\ dbcol = SchemaColumns
    /\ ipc = "ready"
    /\ bound = TRUE
    /\ running = FALSE
    /\ pc = "start"
    /\ last_ts = <<>>
    /\ record = NoneRef
    /\ resp = NoResponse
    /\ sleepUntil = 0
    /\ session = "none"
    /\ slot = NoneRef
    /\ lock = "free"
    /\ heap = [ r \in Refs |-> <<>> ]
    /\ mpc = "idle"
    /\ ev = 0
    /\ held = NoneRef
    /\ outcome = "none"
    /\ nAdd = 0
    /\ db = {}
    /\ hasThread = TRUE
    /\ nShut = 0

Next == PollThread \/ MainThread \/ Tick

Spec == Init /\ [][Next]_vars

\* the service as install.py configures it: hostname 'purple-air' (a local
\* device) and no interval option, so that the int default is set
FairInit ==
    /\ Init
    /\ ~cloud
    /\ interval.kind = "int"

\* threads are scheduled fairly and the clock advances; the main thread
\* holds the lock only for the copy in get_record, once per archival signal,
\* so a poll thread waiting for the lock gets it
FairSpec ==
    /\ FairInit /\ [][Next]_vars
    /\ WF_vars(PollThread)
    /\ SF_vars(PublishLock)
    /\ WF_vars(Tick)
    /\ WF_vars(GetRecordCopy)

---------------------------------------------------------------------------
(* The construction of the service: PurpleAirMonitor.__init__ on every *)
(* [PurpleAirMonitor] section and every table it may find                *)

\* the table was created from the schema, or from an older one without the
\* last column, or has a column more, or has its columns in another order
Tables ==
    { SchemaColumns,
      SubSeq(SchemaColumns, 1, Len(SchemaColumns) - 1),
      Append(SchemaColumns, "pm_extra"),
      <<SchemaColumns[2], SchemaColumns[1]>>
         \o SubSeq(SchemaColumns, 3, Len(SchemaColumns)) }

ConsInit ==
    /\ now = 1
    /\ conf \in Sections({DeviceName, SensorIndex, DeviceAddress, NoName})
    /\ dbcol \in Tables
    /\ ipc = "try"
    /\ bound = FALSE
    /\ running = FALSE
    /\ pc = "none"
    /\ last_ts = <<>>
    /\ record = NoneRef
    /\ resp = NoResponse
    /\ sleepUntil = 0
    /\ session = "none"
    /\ slot = NoneRef
    /\ lock = "free"
    /\ heap = [ r \in Refs |-> <<>> ]
    /\ mpc = "idle"
    /\ ev = 0
    /\ held = NoneRef
    /\ outcome = "none"
    /\ nAdd = 0
    /\ db = {}
    /\ hasThread = FALSE
    /\ nShut = 0

ConsNext == Construct

ConsSpec == ConsInit /\ [][ConsNext]_vars

---------------------------------------------------------------------------
(* collect_data on its own: one call, on a wide range of answers *)

Ages == {0, ValidTimeout - 1, ValidTimeout, ValidTimeout + 1}

OtherAB == { <<1, MaxConc>>, <<0, 1>> }

\* payloads in which concentration k reads <<a, b>> and the others read cd,
\* complete or with one key left out
WidePayloads(isCloud, t) ==
    LET full == { Payload(isCloud, t - age,
                          [ x \in PMKeySet |-> IF x = k THEN <<a, b>> ELSE cd ]) :
                  age \in Ages, k \in PMKeySet, a \in 0..MaxConc,
                  b \in 0..MaxConc, cd \in OtherAB }
    IN full \cup
       UNION { { Without(j, key) : key \in DOMAIN j } :
               j \in { Payload(isCloud, t - age, [ x \in PMKeySet |-> cd ]) :
                       age \in Ages, cd \in OtherAB } }

WideResponses(isCloud, t) ==
    Failures \cup { [ kind |-> "json", body |-> <<>> ] }
    \cup { Json(isCloud, j) : j \in WidePayloads(isCloud, t) }

\* run is about to call collect_data
NormInit ==
    /\ now \in (ValidTimeout + 1)..(ValidTimeout + NormSpan)
    /\ conf \in ReadyConfigs
    /\ dbcol = SchemaColumns
    /\ ipc = "ready"
    /\ bound = TRUE
    /\ running = TRUE
    /\ pc = "fetching"
    /\ last_ts = <<>>
    /\ record = NoneRef
    /\ resp = NoResponse
    /\ sleepUntil = 0
    /\ session = "open"
    /\ slot = NoneRef
    /\ lock = "free"
    /\ heap = [ r \in Refs |-> <<>> ]
    /\ mpc = "idle"
    /\ ev = 0
    /\ held = NoneRef
    /\ outcome = "none"
    /\ nAdd = 0
    /\ db = {}
    /\ hasThread = TRUE
    /\ nShut = 0

NormCollect ==
    /\ pc = "fetching"
    /\ \E r \in WideResponses(cloud, now) : FetchReturnOn(r)

NormNext == NormCollect

NormSpec == NormInit /\ [][NormNext]_vars

---------------------------------------------------------------------------
(* Vocabulary of the properties *)

\* the dict a reference names
Deref(ref) == IF ref = NoneRef THEN <<>> ELSE heap[ref]

\* shutDown has written running = False
StopSet == mpc = "join" \/ ~hasThread

\* the poll thread is inside time.sleep
Sleeping == pc \in {"tick", "backoff"}

\* the sensor's payload inside answer r
Sensor(r) == IF cloud THEN r.body["sensor"] ELSE r.body

\* answer r is JSON and has its structural keys
Structural(r) ==
    /\ r.kind = "json"
    /\ cloud => "sensor" \in DOMAIN r.body
    /\ SeenKey(cloud) \in DOMAIN Sensor(r)

\* collect_data has just returned a record for the answer in resp
Collected == pc = "interval" /\ resp.kind = "json"

\* a field of a record is absent: no key, or None
Absent(rec, key) == key \notin DOMAIN rec \/ rec[key] = <<>>

---------------------------------------------------------------------------
(* Properties *)

\* C1: on every archival signal new_archive_record makes exactly one
\* addRecord call if a reading has been published and
\* |reading.dateTime - signal.dateTime| <= 1.5 x poll interval, and makes no
\* addRecord call otherwise (empty slot, or a larger difference).
C1_PersistIffFresh ==
    [][ (mpc = "eval" /\ mpc' # "eval") =>
          LET rec == Deref(held)
              near == /\ DOMAIN rec # {}
                      /\ 2 * Delta(rec, ev) <= 3 * ToInt(interval)
          IN /\ near => nAdd' = 1 /\ db' = db \cup {rec.dateTime}
             /\ ~near => nAdd' = 0 /\ db' = db ]_vars

\* C2: what get_record returns, and what the slot holds, is None or one
\* complete record of a single successful fetch cycle, interval field
\* included: the record collect_data returned for some answer at the
\* record's dateTime, with interval added.
CompleteRecord(rec) ==
    /\ "interval" \in DOMAIN rec
    /\ rec.interval = ToInt(interval) \div 60
    /\ \E r \in Responses(cloud, rec.dateTime) :
          LET out == collect_data(cloud, r, rec.dateTime) IN
          /\ out.exc = "none"
          /\ rec = ("interval" :> ToInt(interval) \div 60) @@ out.record

C2_PublicationAtomic ==
    /\ held # NoneRef => CompleteRecord(heap[held])
    /\ slot # NoneRef => CompleteRecord(heap[slot])

\* C2 witness: get_record has returned a copy while the poll thread holds a
\* newer record that is still without its interval field
C2_Witness ==
    /\ mpc = "eval"
    /\ held # NoneRef
    /\ pc = "interval"
    /\ record # slot
    /\ slot # NoneRef
    /\ heap[held] = heap[slot]

\* C3: a failed fetch cycle leaves the slot and last_ts as they were and
\* sleeps one full poll interval before the loop goes on.
C3_FailureKeepsSlotAndBacksOff ==
    [][ /\ (pc = "fetching" /\ pc' # "fetching"
             /\ collect_data(cloud, resp', now).exc # "none")
          => /\ pc' = "backoff"
             /\ sleepUntil' = now + ToInt(interval)
             /\ slot' = slot /\ Deref(slot)' = Deref(slot)
             /\ last_ts' = last_ts
        /\ pc = "backoff"
          => /\ slot' = slot /\ Deref(slot)' = Deref(slot)
             /\ last_ts' = last_ts
             /\ pc' # "backoff" => pc' = "while" /\ now >= sleepUntil ]_vars

\* C3 witness: a cycle has failed after an earlier one succeeded, and the
\* backoff sleep is over
C3_Witness ==
    /\ pc = "backoff"
    /\ resp.kind = "socket.error"
    /\ slot # NoneRef
    /\ last_ts # <<>>
    /\ now >= sleepUntil

\* C4: an iteration of the running loop fetches iff no fetch has succeeded
\* yet or the time since the last success is >= the poll interval; otherwise
\* it makes no fetch, leaves slot and last_ts alone and sleeps the 1 second
\* tick.  On success the new record replaces the slot's value and last_ts is
\* set.
C4_FetchIffDue ==
    [][ LET due == last_ts = <<>> \/ now - last_ts[1] >= ToInt(interval) IN
        /\ (pc = "if" /\ pc' # "if")
          => /\ due <=> pc' = "fetching"
             /\ ~due => /\ pc' = "tick"
                        /\ sleepUntil' = now + 1
                        /\ slot' = slot /\ Deref(slot)' = Deref(slot)
                        /\ last_ts' = last_ts
        /\ (pc' = "fetching" /\ pc # "fetching") => pc = "if" /\ due
        /\ (pc = "fetching" /\ pc' # "fetching"
             /\ collect_data(cloud, resp', now).exc = "none")
          => pc' = "interval"
        /\ (pc = "interval" /\ pc' # pc) => pc' = "lock"
        /\ (pc = "lock" /\ pc' # pc) => pc' = "assign"
        /\ (pc = "assign" /\ pc' # pc)
          => /\ slot' = record /\ Deref(slot)' = heap[record]
             /\ pc' = "stamp"
        /\ (pc = "stamp" /\ pc' # pc) => last_ts' = <<now>> ]_vars

\* C4 witness: after a success the loop found no fetch due and sleeps its
\* tick
C4_Witness ==
    /\ pc = "tick"
    /\ last_ts # <<>>
    /\ slot # NoneRef
    /\ sleepUntil > last_ts[1] + TickSeconds

C6_StopWithinOneTick ==
    (StopSet /\ Sleeping) => sleepUntil - now <= TickSeconds

\* C7: for a CloudAPI payload, age >= 10 minutes gives a record without any
\* of the six concentration fields and with the temperature, humidity and
\* pressure of the payload; age < 10 minutes gives all six fields.
C7_CloudStalenessGate ==
    (Collected /\ cloud) =>
       LET j == Sensor(resp)
           rec == heap[record]
           age == rec.dateTime - j["last_seen"]
       IN /\ age >= 10 * 60 =>
               /\ DOMAIN rec \cap PMKeySet = {}
               /\ "temperature" \in DOMAIN j
                    => rec.purple_temperature = <<2 * j["temperature"]>>
               /\ "humidity" \in DOMAIN j
                    => rec.purple_humidity = <<2 * j["humidity"]>>
               /\ "pressure" \in DOMAIN j => "purple_pressure" \in DOMAIN rec
          /\ age < 10 * 60 => PMKeySet \subseteq DOMAIN rec

\* C7 witness: a CloudAPI payload exactly 10 minutes old, carrying
\* temperature, humidity and pressure, has been normalized
C7_Witness ==
    /\ Collected /\ cloud
    /\ heap[record].dateTime - Sensor(resp)["last_seen"] = 10 * 60
    /\ {"temperature", "humidity", "pressure"} \subseteq DOMAIN Sensor(resp)

\* C8: for a payload that is JSON and has its structural keys, collect_data
\* does not raise, and every optional field the payload lacks is absent
\* from the record.
C8_MissingOptionalNeverRaises ==
    Structural(resp) =>
       /\ pc # "backoff"
       /\ pc = "interval" =>
            LET j == Sensor(resp)
                rec == heap[record]
            IN /\ \A k \in PMKeySet :
                    ({ChannelA(cloud, k), ChannelB(cloud, k)} \subseteq DOMAIN j)
                    \/ Absent(rec, k)
               /\ "pressure" \in DOMAIN j \/ Absent(rec, "purple_pressure")
               /\ \A x \in {"temperature", "current_temp_f"} \cap EnvKeys(cloud) :
                    x \in DOMAIN j \/ Absent(rec, "purple_temperature")

\* C9: for a LocalDevice payload the six concentration fields are present
\* in the record whatever the age of response_date.
C9_LocalNoStalenessGate ==
    (Collected /\ ~cloud) => PMKeySet \subseteq DOMAIN heap[record]

\* C10: each concentration field of a record is the mean of its channels A
\* and B when both are non-zero, the non-zero one when exactly one is zero,
\* and 0 when both are zero, in both payload modes (values in halves).
C10_Reconcile ==
    Collected =>
       \A k \in PMKeySet \cap DOMAIN heap[record] :
          LET A == Sensor(resp)[ChannelA(cloud, k)]
              B == Sensor(resp)[ChannelB(cloud, k)]
              v == heap[record][k]
          IN /\ (A # 0 /\ B # 0) => v = A + B
             /\ (A = 0 /\ B # 0) => v = 2 * B
             /\ (A # 0 /\ B = 0) => v = 2 * A
             /\ (A = 0 /\ B = 0) => v = 0

\* C10 witness: a record has been built from a payload in which one
\* concentration has channel A at zero and channel B not
C10_Witness ==
    /\ Collected
    /\ \E k \in PMKeySet \cap DOMAIN heap[record] :
          /\ Sensor(resp)[ChannelA(cloud, k)] = 0
          /\ Sensor(resp)[ChannelB(cloud, k)] = MaxConc

\* C11: the record get_record returned is a dict of its own: it is neither
\* the slot's dict nor the poll thread's, so a write to it changes neither
\* what the slot holds nor what a later get_record copies, and as long as
\* the caller holds it no step (a later publish included) changes its
\* fields.
C11_SnapshotIndependent ==
    /\ [](held # NoneRef =>
            /\ held \notin {slot, record}
            /\ LET written == [heap EXCEPT ![held] = <<>>] IN
               /\ written[slot] = heap[slot]
               /\ CopyOf(written, slot, held).heap[held] = heap[slot])
    /\ [][ (held # NoneRef /\ held' = held) => heap'[held] = heap[held] ]_vars

\* C11 witness: the handler holds a copy of an earlier reading while the
\* poll thread has published a later one
C11_Witness ==
    /\ mpc = "eval"
    /\ held # NoneRef
    /\ slot # NoneRef
    /\ pc = "stamp"
    /\ heap[held].dateTime < heap[slot].dateTime

\* C12: the slot lock is held by the poll thread only for the slot
\* assignment and by the main thread only for the copy in get_record; in
\* every other state of the poll thread (a fetch in flight, a backoff or
\* tick sleep included) the handler's next step can be taken, and the
\* poll thread's assignment never waits for anything.
C12_FetchNeverBlocksHandler ==
    /\ lock = "poll" <=> pc = "assign"
    /\ lock = "main" <=> mpc = "get_copy"
    /\ (mpc = "get_lock" /\ pc # "assign") => ENABLED GetRecordLock
    /\ mpc = "get_copy" => ENABLED GetRecordCopy
    /\ mpc = "eval" => ENABLED Evaluate
    /\ pc = "assign" => ENABLED Publish

\* C12 witness: get_record has taken the lock while a fetch is in flight
\* that follows an earlier publish
C12_Witness ==
    /\ pc = "fetching"
    /\ lock = "main"
    /\ slot # NoneRef

\* C13: in every state in which the session has been closed the poll
\* thread has terminated (and no fetch is in flight or started afterwards).
C13_ClosedOnlyAfterExit ==
    session = "closed" => pc = "done"

\* C13, amended: the poll thread closes the session itself, as the last
\* statement of run after the loop has been left on the stop flag: in every
\* state in which the session has been closed the thread is at its return
\* or has ended, it stays so and the session stays closed (no fetch is in
\* flight or started afterwards), and shutDown's join() returns only after
\* the session has been closed and the thread has ended.
C13_ClosedOnlyAfterLoop ==
    /\ [](session = "closed" => pc \in {"exit", "done"} /\ ~running)
    /\ [](pc \in {"exit", "done"} => session = "closed")
    /\ [](~hasThread => session = "closed" /\ pc = "done")
    /\ [][ session = "closed" =>
             session' = "closed" /\ pc' \in {"exit", "done"} ]_vars

\* C13 witness: the session has been closed after a reading was published,
\* run has not returned yet and shutDown waits in join()
C13_Witness ==
    /\ session = "closed"
    /\ pc = "exit"
    /\ mpc = "join"
    /\ slot # NoneRef

\* C14: __init__ raises iff the hostname option is missing, or the
\* hostname is numeric and there is no api_key option, or the table's
\* columns differ from the schema's; when it has raised, no poll thread has
\* been started and no handler is bound; otherwise it ends with the
\* handler bound and the thread started.  A hostname that is not numeric
\* needs no api_key.
C14_ConfigErrorFatal ==
    /\ [][ (ipc = "try" /\ ipc' # ipc) =>
             (ipc' = "raised" <=>
                \/ "hostname" \notin DOMAIN conf
                \/ /\ IsNumeric(conf["hostname"])
                   /\ "api_key" \notin DOMAIN conf) ]_vars
    /\ [][ (ipc = "schema" /\ ipc' # ipc) =>
             (ipc' = "raised" <=> dbcol # SchemaColumns) ]_vars
    /\ [][ ipc = "raised" => ipc' = "raised" ]_vars
    /\ [](ipc # "ready" => ~hasThread /\ pc = "none")
    /\ [](ipc \in {"try", "defaults", "schema", "raised"} => ~bound)
    /\ [](ipc = "ready" =>
            /\ bound /\ hasThread /\ pc = "start"
            /\ dbcol = SchemaColumns
            /\ "hostname" \in DOMAIN conf)

\* C14 witness: the service has been constructed for a device whose
\* section has a hostname that is not numeric and no api_key
C14_Witness ==
    /\ ipc = "ready"
    /\ conf["hostname"] = DeviceAddress
    /\ conf["api_key"] = "API_KEY"
    /\ conf["interval"] = DefaultInterval

\* C15: no publish replaces the slot's reading with one that carries an
\* older dateTime, and no other step changes the slot's reading.
C15_SlotTimeMonotonic ==
    [][ slot # NoneRef =>
          /\ slot' # NoneRef
          /\ heap'[slot'].dateTime >= heap[slot].dateTime
          /\ pc # "assign" => slot' = slot /\ heap'[slot] = heap[slot] ]_vars

\* C15 witness: a second reading has been published, in a cycle that got a
\* payload with an old time stamp, later than the end of the cycle before
C15_Witness ==
    /\ pc = "stamp"
    /\ slot = record
    /\ last_ts # <<>>
    /\ heap[slot].dateTime > last_ts[1]
    /\ resp.kind = "json"
    /\ Sensor(resp)[SeenKey(cloud)] < last_ts[1]

\* C16: the poll thread is started once and stopped once: only the first
\* shutDown call writes the stop flag and joins, and it returns with the
\* thread ended; every later shutDown call returns at once, signalling and
\* joining nothing, and changes nothing of the service but the count of
\* calls.
C16_StopIdempotent ==
    /\ [][ pc' = "start" => pc = "start" ]_vars
    /\ [][ (mpc' = "join" /\ mpc # "join") => nShut = 0 /\ hasThread ]_vars
    /\ [][ (mpc = "join" /\ mpc' # "join") => pc = "done" /\ ~hasThread' ]_vars
    /\ [][ (nShut' # nShut /\ nShut >= 1) =>
             /\ ~hasThread /\ ~hasThread'
             /\ mpc' = "idle"
             /\ <<now, conf, dbcol, ipc, bound, running, pc, last_ts, record,
                  resp, sleepUntil, session, slot, lock, heap, mpc, ev, held,
                  outcome, nAdd, db>>'
                = <<now, conf, dbcol, ipc, bound, running, pc, last_ts, record,
                    resp, sleepUntil, session, slot, lock, heap, mpc, ev,
                    held, outcome, nAdd, db>> ]_vars
    /\ [](~hasThread => pc = "done" /\ ~running /\ mpc = "idle")

\* C16 witness: shutDown has been called a second time, after the first
\* call stopped a thread that had published a reading
C16_Witness ==
    /\ nShut = 2
    /\ ~hasThread
    /\ pc = "done"
    /\ slot # NoneRef

\* C17: what get_record returns is the slot's content, field for field,
\* and get_record leaves the slot and its content as they are; only the
\* poll thread's assignment changes the slot.  Hence two get_record calls
\* with no publish between them return equal snapshots.
C17_ReadIdempotent ==
    /\ [][ (mpc = "get_copy" /\ mpc' # "get_copy") =>
             /\ Deref(held)' = Deref(slot)
             /\ slot' = slot
             /\ Deref(slot)' = Deref(slot) ]_vars
    /\ [][ ~(pc = "assign" /\ pc' # "assign") =>
             slot' = slot /\ Deref(slot)' = Deref(slot) ]_vars

\* C17 witness: get_record has returned a reading that an earlier
\* get_record call returned too (the handler persisted it then), with no
\* publish since
C17_Witness ==
    /\ mpc = "eval"
    /\ held # NoneRef
    /\ heap[held] = heap[slot]
    /\ heap[held].dateTime \in db

\* C18: the stop request is never lost: while shutDown waits in join() the
\* stop flag is down, whatever the poll thread had done when shutDown wrote
\* it, so that the loop's next test of the flag ends the thread.
C18_StopNeverLost ==
    mpc = "join" => ~running

\* C19: no two addRecord calls carry the same dateTime: when the handler
\* persists a reading, no earlier call has persisted a reading with that
\* dateTime.
C19_PersistAtMostOnce ==
    [][ (mpc = "eval" /\ mpc' # "eval" /\ nAdd' = 1) =>
          heap[held].dateTime \notin db ]_vars

\* C20: for an int interval and for a text interval alike, a handler call
\* that got a reading ends with a persist or a skip, decided by the
\* threshold 1.5 x to_int(interval), and never with an error.
C20_HandlerUsesNumericInterval ==
    [][ (mpc = "eval" /\ mpc' # "eval" /\ held # NoneRef) =>
          outcome' = IF 2 * Delta(heap[held], ev) > 3 * ToInt(interval)
                     THEN "skip_stale" ELSE "persist" ]_vars

\* C21: a publish that replaces a reading puts in the slot a reading whose
\* dateTime is at least the replaced reading's dateTime plus the poll
\* interval; last_ts, on which the next fetch is gated, is never earlier
\* than the dateTime of the reading in the slot.
C21_ReadingsIntervalApart ==
    /\ [][ (pc = "assign" /\ pc' # "assign" /\ slot # NoneRef) =>
             heap'[slot'].dateTime
               >= heap[slot].dateTime + ToInt(interval) ]_vars
    /\ []((last_ts # <<>> /\ slot # NoneRef /\ pc # "stamp") =>
             last_ts[1] >= heap[slot].dateTime)

\* C21 witness: a second reading has been published that was fetched
\* exactly one poll interval after the cycle before stamped last_ts
C21_Witness ==
    /\ pc = "stamp"
    /\ slot = record
    /\ last_ts # <<>>
    /\ heap[slot].dateTime = last_ts[1] + ToInt(interval)

=============================================================================
